---- MODULE Spec2Model ----
(***************************************************************************)
(* Vietnamese Gross-to-Net payroll calculator (src/frontend/app.py).       *)
(*                                                                         *)
(* calculate_gross_to_net is modelled as the operator of the same name,    *)
(* statement by statement.  The Python code works on floats, and so does   *)
(* the model: an amount is an IEEE 754 double, every product, sum and      *)
(* difference is rounded to the nearest double as the hardware rounds it,  *)
(* and a rate is the double its decimal literal denotes (0.35 is a little  *)
(* below 35/100).  Python's round() is round-half-to-even on that double.  *)
(* Integers of the model are below 2^31, so the amounts are.               *)
(***************************************************************************)
EXTENDS Integers, Sequences, FiniteSets, TLC

VARIABLES
    data,          \* the GrossNetInput handed to calculate_gross_to_net
    pc,            \* "ready": call pending; "returned" / "raised": call over
    outcome,       \* what the last call produced (result or exception)
    frame,         \* the local variables of the last call, unrounded
    history,       \* data and outcome of the call before the last one
    uploaded_file, \* batch tab: the file the user uploaded
    df_input,      \* batch tab: the table read from the file (columns, rows)
    batch_pc,      \* batch tab: position of the upload handler
    index,         \* batch tab: loop variable of the row loop (0-based)
    results_list,  \* batch tab: one result_data dict per processed row
    df_output,     \* batch tab: the table shown and offered for download
    st_error,      \* batch tab: message shown by st.error for the whole batch
    router,        \* API: whether the module of the router has been executed
    request,       \* API: the request a handler of the router is serving
    response       \* API: what the handler produced for it

calcVars == <<data, pc, outcome, frame, history>>
batchVars == <<uploaded_file, df_input, batch_pc, index, results_list, df_output,
              st_error>>
apiVars == <<router, request, response>>
vars == <<data, pc, outcome, frame, history,
          uploaded_file, df_input, batch_pc, index, results_list, df_output, st_error,
          router, request, response>>

(***************************************************************************)
(* Bounds of the model.                                                    *)
(***************************************************************************)
\* gross incomes are  k * GrossStep + o * GrossFine, k in 0..MaxK, o in 0..MaxFine
GrossStep == 10900100
GrossFine == 150030
MaxK == 12
MaxFine == 1
MaxDependents == 2
MaxRows == 2

(***************************************************************************)
(* Python floats: IEEE 754 doubles.  [s, m, e] is s * m * 2^e with the     *)
(* sign s in {-1, 1} and m a 53-bit significand, 2^52 <= m < 2^53;         *)
(* s = 0 is 0.0.  A significand is a pair <<low, high>> of 28-bit limbs,   *)
(* low + high * 2^28, as are the wider numbers an operation goes through.  *)
(***************************************************************************)
\* the element of a one-element set: Only({ e : x \in {v} }) is e with x
\* standing for the value of v
Only(S) == CHOOSE r \in S : TRUE

\* f[v] for the function f of the one-element domain {v}:
\* Let([x \in {v} |-> e]) is e with x standing for the value of v
Let(f) == Only({ g[Only(DOMAIN g)] : g \in {f} })

MantissaBits == 53
LimbBits == 28
Limb == 2 ^ LimbBits
DigitBits == 14
Digit == 2 ^ DigitBits

\* the number of binary digits of a limb, 0 for 0
IntBitLen(n) ==
    30 - (CHOOSE j \in 0..30 : n < 2 ^ (30 - j) /\ (j = 30 \/ n >= 2 ^ (29 - j)))

BitLen(w) == IF w[2] # 0 THEN LimbBits + IntBitLen(w[2]) ELSE IntBitLen(w[1])

\* w \div 2^n
Shr(w, n) ==
    IF n >= 2 * LimbBits THEN <<0, 0>>
    ELSE IF n >= LimbBits THEN <<w[2] \div 2 ^ (n - LimbBits), 0>>
    ELSE <<(w[1] \div 2 ^ n) + (w[2] % 2 ^ n) * 2 ^ (LimbBits - n), w[2] \div 2 ^ n>>

\* one of the n lowest bits of w is set
Lost(w, n) ==
    IF n >= 2 * LimbBits THEN w # <<0, 0>>
    ELSE IF n >= LimbBits THEN w[1] # 0 \/ w[2] % 2 ^ (n - LimbBits) # 0
    ELSE w[1] % 2 ^ n # 0

\* w * 2^n, for a w of at most 2 * LimbBits - n bits
Shl(w, n) ==
    IF n >= LimbBits THEN <<0, w[1] * 2 ^ (n - LimbBits)>>
    ELSE <<(w[1] % 2 ^ (LimbBits - n)) * 2 ^ n,
           w[2] * 2 ^ n + (w[1] \div 2 ^ (LimbBits - n))>>

Add(w, v) == <<(w[1] + v[1]) % Limb, w[2] + v[2] + ((w[1] + v[1]) \div Limb)>>

\* w - v for w >= v
Sub(w, v) == <<(w[1] - v[1]) % Limb, w[2] - v[2] - (IF w[1] < v[1] THEN 1 ELSE 0)>>

Less(w, v) == w[2] < v[2] \/ (w[2] = v[2] /\ w[1] < v[1])

\* w with its lowest bit set when bits below it were lost: the lowest bit
\* then says that the exact value lies above the even number below it
Sticky(w, lost) == IF lost /\ w[1] % 2 = 0 THEN <<w[1] + 1, w[2]>> ELSE w

\* w \div 2^n, sticky
ShrSticky(w, n) == Only({ Sticky(q, Lost(w, n)) : q \in {Shr(w, n)} })

\* w / 2^n rounded to the nearest whole number, a tie to the even one
RoundShr(w, n) ==
    Only({ IF /\ Shr(w, n - 1)[1] % 2 = 1
              /\ (Lost(w, n - 1) \/ q[1] % 2 = 1)
           THEN Add(q, <<1, 0>>)
           ELSE q
           : q \in {Shr(w, n)} })

Zero == [s |-> 0, m |-> <<0, 0>>, e |-> 0]

\* the double nearest to s * w * 2^e, a tie to the even significand
Pack(s, w, e) ==
    IF w = <<0, 0>> THEN Zero
    ELSE Only({ IF drop <= 0
                THEN [s |-> s, m |-> Shl(w, -drop), e |-> e + drop]
                ELSE Only({ IF BitLen(q) > MantissaBits
                            THEN [s |-> s, m |-> Shr(q, 1), e |-> e + drop + 1]
                            ELSE [s |-> s, m |-> q, e |-> e + drop]
                            : q \in {RoundShr(w, drop)} })
                : drop \in {BitLen(w) - MantissaBits} })

\* an int where the code computes with floats: the double of the same value
FromInt(n) ==
    IF n < 0 THEN Pack(-1, <<(-n) % Limb, (-n) \div Limb>>, 0)
    ELSE Pack(1, <<n % Limb, n \div Limb>>, 0)

\* digit k after the binary point of num / den in base 2^14, and what is
\* left of num after it, for 0 < num < den
RECURSIVE Remainder(_, _, _)
Remainder(num, den, k) ==
    IF k = 0 THEN num ELSE (Remainder(num, den, k - 1) * Digit) % den

QuotientDigit(num, den, k) == (Remainder(num, den, k - 1) * Digit) \div den

\* the double a decimal literal num/den below 1 denotes (0.08 = 8/100): the
\* quotient, rounded to nearest
RECURSIVE Literal(_, _)
Literal(num, den) ==
    IF 2 * num < den
    THEN Only({ [double EXCEPT !.e = @ - 1] : double \in {Literal(2 * num, den)} })
    ELSE Pack(1,
              Sticky(<<QuotientDigit(num, den, 4) + QuotientDigit(num, den, 3) * Digit,
                       QuotientDigit(num, den, 2) + QuotientDigit(num, den, 1) * Digit>>,
                     Remainder(num, den, 4) # 0),
              -(2 * LimbBits))

\* -a
FNeg(a) == Only({ [x EXCEPT !.s = -x.s] : x \in {a} })

\* three more bits below a significand: the bits an addition needs to round,
\* and a significand of four whole digits of base 2^14 for a multiplication
GuardBits == 3

\* a limb pair in four digits of base 2^14, the lowest first
Digits(w) == <<w[1] % Digit, w[1] \div Digit, w[2] % Digit, w[2] \div Digit>>

\* x * y by the schoolbook: the sums of the digit products of each place
Columns(x, y) ==
    << x[1] * y[1],
       x[1] * y[2] + x[2] * y[1],
       x[1] * y[3] + x[2] * y[2] + x[3] * y[1],
       x[1] * y[4] + x[2] * y[3] + x[3] * y[2] + x[4] * y[1],
       x[2] * y[4] + x[3] * y[3] + x[4] * y[2],
       x[3] * y[4] + x[4] * y[3],
       x[4] * y[4],
       0 >>

\* the digits of the number with the column sums c, from place k on
RECURSIVE Carried(_, _, _)
Carried(c, k, carry) ==
    IF k > Len(c) THEN <<>>
    ELSE Only({ <<t % Digit>> \o Carried(c, k + 1, t \div Digit)
                : t \in {c[k] + carry} })

\* the four high digits of the product of two limb pairs, sticky
ProductTop(x, y) ==
    Only({ Sticky(<<p[5] + p[6] * Digit, p[7] + p[8] * Digit>>,
                  SubSeq(p, 1, 4) # <<0, 0, 0, 0>>)
           : p \in {Carried(Columns(Digits(x), Digits(y)), 1, 0)} })

\* a * b
FMul(a, b) ==
    Only({ IF x.s = 0 \/ y.s = 0 THEN Zero
           ELSE Pack(x.s * y.s,
                     ProductTop(Shl(x.m, GuardBits), Shl(y.m, GuardBits)),
                     x.e + y.e + 2 * LimbBits - 2 * GuardBits)
           : x \in {a}, y \in {b} })

\* x + y for two doubles other than 0.0 with x.e >= y.e
AddOrdered(x, y) ==
    Only({ IF x.s = y.s THEN Pack(x.s, Add(xw, yw), x.e - GuardBits)
           ELSE IF xw = yw THEN Zero
           ELSE IF Less(yw, xw) THEN Pack(x.s, Sub(xw, yw), x.e - GuardBits)
           ELSE Pack(y.s, Sub(yw, xw), x.e - GuardBits)
           : xw \in {Shl(x.m, GuardBits)},
             yw \in {ShrSticky(Shl(y.m, GuardBits), x.e - y.e)} })

\* a + b
FAdd(a, b) ==
    Only({ IF x.s = 0 THEN y
           ELSE IF y.s = 0 THEN x
           ELSE IF x.e >= y.e THEN AddOrdered(x, y)
           ELSE AddOrdered(y, x)
           : x \in {a}, y \in {b} })

\* a - b
FSub(a, b) == FAdd(a, FNeg(b))

\* |x| < |y| for two doubles other than 0.0
MagnitudeLess(x, y) == x.e < y.e \/ (x.e = y.e /\ Less(x.m, y.m))

\* a < b
FLess(a, b) ==
    Only({ IF x.s # y.s THEN x.s < y.s
           ELSE IF x.s = 0 THEN FALSE
           ELSE IF x.s = 1 THEN MagnitudeLess(x, y)
           ELSE MagnitudeLess(y, x)
           : x \in {a}, y \in {b} })

FLeq(a, b) == ~FLess(b, a)

\* Python max(a, b) / min(a, b): the first argument wins a draw
FMax(a, b) == Only({ IF FLess(x, y) THEN y ELSE x : x \in {a}, y \in {b} })

FMin(a, b) == Only({ IF FLess(y, x) THEN y ELSE x : x \in {a}, y \in {b} })

\* the value of a limb pair below 2^31
ToInt(w) == w[1] + w[2] * Limb

\* Python round(x): the nearest int, a tie to the even one
FRound(a) ==
    Only({ IF x.s = 0 THEN 0
           ELSE IF x.e >= 0 THEN x.s * ToInt(Shl(x.m, x.e))
           ELSE x.s * ToInt(RoundShr(x.m, -x.e))
           : x \in {a} })

(***************************************************************************)
(* Constant tables.                                                        *)
(***************************************************************************)
\* variant: the allowance of the regulation before the current one
PERSONAL_ALLOWANCE_Previous == 11000000 - 2000000

PERSONAL_ALLOWANCE == 11000000

\* variant: the allowance of the regulation before the current one
DEPENDENT_ALLOWANCE_Previous == 4400000 - 800000

DEPENDENT_ALLOWANCE == 4400000

RATE_SOCIAL_INSURANCE == Literal(8, 100)
RATE_HEALTH_INSURANCE == Literal(15, 1000)
RATE_UNEMPLOYMENT_INSURANCE == Literal(1, 100)

BASE_SALARY_FOR_CAPS == 2340000
BHXH_BHYT_CAP_MULTIPLIER == 20
BHTN_CAP_MULTIPLIER == 20

BHXH_BHYT_MAX_BASE == BASE_SALARY_FOR_CAPS * BHXH_BHYT_CAP_MULTIPLIER

\* variant: the table carries a fifth tier the code does not have
REGIONAL_MINIMUM_WAGES_FiveTiers ==
    (1 :> 4960000) @@ (2 :> 4410000) @@ (3 :> 3860000) @@ (4 :> 3450000)
        @@ (5 :> 3450000)

REGIONAL_MINIMUM_WAGES ==
    (1 :> 4960000) @@ (2 :> 4410000) @@ (3 :> 3860000) @@ (4 :> 3450000)

\* float('inf'): above every amount of the model
Inf == 2147483647

\* variant: the deduction of the fourth bracket is off by 50,000
PIT_BRACKETS_BadDeduction == <<
    [limit |-> 5000000,  rate |-> Literal(5, 100), deduction |-> 0],
    [limit |-> 10000000, rate |-> Literal(10, 100), deduction |-> 250000],
    [limit |-> 18000000, rate |-> Literal(15, 100), deduction |-> 750000],
    [limit |-> 32000000, rate |-> Literal(20, 100), deduction |-> 1600000],
    [limit |-> 52000000, rate |-> Literal(25, 100), deduction |-> 3250000],
    [limit |-> 80000000, rate |-> Literal(30, 100), deduction |-> 5850000],
    [limit |-> Inf,      rate |-> Literal(35, 100), deduction |-> 9850000] >>

PIT_BRACKETS == <<
    [limit |-> 5000000,  rate |-> Literal(5, 100), deduction |-> 0],
    [limit |-> 10000000, rate |-> Literal(10, 100), deduction |-> 250000],
    [limit |-> 18000000, rate |-> Literal(15, 100), deduction |-> 750000],
    [limit |-> 32000000, rate |-> Literal(20, 100), deduction |-> 1650000],
    [limit |-> 52000000, rate |-> Literal(25, 100), deduction |-> 3250000],
    [limit |-> 80000000, rate |-> Literal(30, 100), deduction |-> 5850000],
    [limit |-> Inf,      rate |-> Literal(35, 100), deduction |-> 9850000] >>

(***************************************************************************)
(* The bracket loop of calculate_gross_to_net: walks PIT_BRACKETS from     *)
(* bracket i with the accumulators pit and previous_limit, and breaks at   *)
(* the first bracket the taxable income does not reach.                    *)
(***************************************************************************)
\* variant: "pit = ..." where the code has "pit += ..."
RECURSIVE BracketWalk_Overwrite(_, _, _, _)
BracketWalk_Overwrite(taxable_income, i, pit, previous_limit) ==
    IF i > Len(PIT_BRACKETS) THEN pit
    ELSE IF FLess(FromInt(previous_limit), taxable_income)
         THEN LET bracket == PIT_BRACKETS[i]
                  taxable_at_current_rate ==
                      FSub(FMin(taxable_income, FromInt(bracket.limit)),
                            FromInt(previous_limit))
              IN  BracketWalk_Overwrite(taxable_income, i + 1,
                              FMul(taxable_at_current_rate, bracket.rate),
                              bracket.limit)
         ELSE pit

RECURSIVE BracketWalk(_, _, _, _)
BracketWalk(taxable_income, i, pit, previous_limit) ==
    IF i > Len(PIT_BRACKETS) THEN pit
    ELSE IF FLess(FromInt(previous_limit), taxable_income)
         THEN LET bracket == PIT_BRACKETS[i]
                  taxable_at_current_rate ==
                      FSub(FMin(taxable_income, FromInt(bracket.limit)),
                            FromInt(previous_limit))
              IN  BracketWalk(taxable_income, i + 1,
                              FAdd(pit, FMul(taxable_at_current_rate, bracket.rate)),
                              bracket.limit)
         ELSE pit

\* variant: the cap is forgotten, only the floor is applied
salary_base_NoCap(insurance_base, cap, regional_min_wage) ==
    FMax(insurance_base, FromInt(regional_min_wage))

\* max(min(insurance_base, cap), regional_min_wage)
salary_base(insurance_base, cap, regional_min_wage) ==
    FMax(FMin(insurance_base, FromInt(cap)), FromInt(regional_min_wage))

\* variant: the insurance is left out of the net income
net_income_NoInsurance(gross_income, total_insurance, pit) ==
    FSub(gross_income, FromInt(pit))

\* gross_income - total_insurance - pit
net_income_of(gross_income, total_insurance, pit) ==
    FSub(FSub(gross_income, total_insurance), FromInt(pit))

\* data.gross_income, data.num_dependents, data.region are attribute reads:
\* the attributes read, in the order of the reads, that the object d lacks.
\* An object is a record of its attributes; a dict is a record
\* [py_type |-> "dict", items |-> ...] and has none of its keys as attribute.
MissingAttributes(d) ==
    SelectSeq(<<"gross_income", "num_dependents", "region">>,
              LAMBDA a : a \notin DOMAIN d)

\* str(region): the offending value as the message carries it
InvalidRegionMessage(region) ==
    <<"Invalid region", ":", " ", ToString(region), ". Must be 1, 2, 3, or 4.">>

(***************************************************************************)
(* calculate_gross_to_net(data): a record  [kind |-> "return", value, frame]*)
(* or  [kind |-> "raise", exc, frame];  frame holds the locals assigned     *)
(* before the function left.                                               *)
(***************************************************************************)
calculate_gross_to_net(arg) ==
    Let([d \in {arg} |->
    IF MissingAttributes(d) # <<>>
    THEN [kind |-> "raise",
          exc |-> [type |-> "AttributeError",
                   msg |-> <<"'dict' object has no attribute '",
                             Head(MissingAttributes(d)), "'">>],
          frame |-> [missing |-> Head(MissingAttributes(d))]]
    ELSE
    Let([gross_income \in {FromInt(d.gross_income)} |->
    Let([num_dependents \in {d.num_dependents} |->
    Let([region \in {d.region} |->
    IF region \notin DOMAIN REGIONAL_MINIMUM_WAGES
    THEN [kind |-> "raise",
          exc |-> [type |-> "ValueError", region |-> region,
                   msg |-> InvalidRegionMessage(region)],
          frame |-> [region |-> region]]
    ELSE
    Let([regional_min_wage \in {REGIONAL_MINIMUM_WAGES[region]} |->
    Let([insurance_base \in {FMax(gross_income, FromInt(regional_min_wage))} |->
    Let([bhxh_bhyt_cap \in {BHXH_BHYT_MAX_BASE} |->
    Let([bhtn_cap \in {regional_min_wage * BHTN_CAP_MULTIPLIER} |->
    Let([salary_base_bhxh_bhyt \in {salary_base(insurance_base, bhxh_bhyt_cap, regional_min_wage)} |->
    Let([salary_base_bhtn \in {salary_base(insurance_base, bhtn_cap, regional_min_wage)} |->
    Let([bhxh \in {FMul(salary_base_bhxh_bhyt, RATE_SOCIAL_INSURANCE)} |->
    Let([bhyt \in {FMul(salary_base_bhxh_bhyt, RATE_HEALTH_INSURANCE)} |->
    Let([bhtn \in {FMul(salary_base_bhtn, RATE_UNEMPLOYMENT_INSURANCE)} |->
    Let([total_insurance \in {FAdd(FAdd(bhxh, bhyt), bhtn)} |->
    Let([insurance_breakdown \in {[social_insurance |-> FRound(bhxh), health_insurance |-> FRound(bhyt), unemployment_insurance |-> FRound(bhtn), total |-> FRound(total_insurance)]} |->
    Let([pre_tax_income \in {FSub(gross_income, total_insurance)} |->
    Let([personal_allowance \in {PERSONAL_ALLOWANCE} |->
    Let([dependent_allowance_total \in {num_dependents * DEPENDENT_ALLOWANCE} |->
    Let([total_allowances \in {personal_allowance + dependent_allowance_total} |->
    Let([taxable_income \in {FMax(FromInt(0), FSub(pre_tax_income, FromInt(total_allowances)))} |->
    Let([pit_walk \in {BracketWalk(taxable_income, 1, FromInt(0), 0)} |->
    Let([rounded_pit \in {FRound(pit_walk)} |->
    Let([pit \in {IF 0 < rounded_pit THEN rounded_pit ELSE 0} |->
    Let([net_income \in {net_income_of(gross_income, total_insurance, pit)} |->
       [kind |-> "return",
        value |-> [gross_income |-> FRound(gross_income),
                   net_income |-> FRound(net_income),
                   personal_income_tax |-> pit,
                   total_insurance_contribution |-> insurance_breakdown.total,
                   insurance_breakdown |-> insurance_breakdown,
                   taxable_income |-> FRound(taxable_income),
                   pre_tax_income |-> FRound(pre_tax_income)],
        frame |-> [region |-> region,
                   regional_min_wage |-> regional_min_wage,
                   insurance_base |-> insurance_base,
                   salary_base_bhxh_bhyt |-> salary_base_bhxh_bhyt,
                   salary_base_bhtn |-> salary_base_bhtn,
                   bhxh |-> bhxh, bhyt |-> bhyt, bhtn |-> bhtn,
                   total_insurance |-> total_insurance,
                   pre_tax_income |-> pre_tax_income,
                   taxable_income |-> taxable_income,
                   pit_walk |-> pit_walk,
                   net_income |-> net_income]]
    ])])])])])])])])])])])])])])])])])])])])])])])])

(***************************************************************************)
(* Inputs of the model.                                                    *)
(***************************************************************************)
\* the example inputs of GrossNetInput.model_config
ExampleInputs ==
    { [gross_income |-> 30000000, num_dependents |-> 1, region |-> 1],
      [gross_income |-> 20000000, num_dependents |-> 0, region |-> 1] }

\* gross incomes whose taxable income sits exactly on a bracket limit
\* (52,000,000 in region 4 with one dependent; 80,000,000 in region 4
\* with none and in region 1 with one)
BoundaryGross == {72536000, 96136000, 100838000}

\* a gross income above 5 * 2^27 = 671,088,640: from there on a product with
\* the double 0.35, which is below 35/100, can land below the half VND that
\* the exact product is on (the tax here is 253,031,027, not 253,031,028)
LargeGross == {767224650}

GrossValues ==
    { g \in { k * GrossStep + o * GrossFine : k \in 0..MaxK, o \in 0..MaxFine } : g > 0 }
        \cup { e.gross_income : e \in ExampleInputs }
        \cup BoundaryGross
        \cup LargeGross

DependentValues == 0..MaxDependents

ValidRegions == DOMAIN REGIONAL_MINIMUM_WAGES

\* region codes outside the table, one on each side
InvalidRegions == {0, 5}

RegionValues == ValidRegions \cup InvalidRegions

Inputs == [gross_income : GrossValues, num_dependents : DependentValues,
           region : RegionValues]

NoCall == [kind |-> "none"]

NoHistory == [called |-> FALSE]

(***************************************************************************)
(* Specification of the calculator called on its own: a caller hands it an *)
(* input, reads the outcome, and calls again with one field changed.       *)
(***************************************************************************)
NoRequest == [method |-> "none"]

NoResponse == [kind |-> "none"]

\* the module of the router has not been executed
NoRouter == [kind |-> "unloaded"]

\* no request is being served
ApiIdle ==
    /\ router = NoRouter
    /\ request = NoRequest
    /\ response = NoResponse

\* uploaded_file is None
NoFile == [kind |-> "none"]

\* df_input before pd.read_excel has returned
NoTable == [columns |-> {}, rows |-> <<>>]

CalcIdle ==
    /\ uploaded_file = NoFile
    /\ df_input = NoTable
    /\ batch_pc = "idle"
    /\ index = 0
    /\ results_list = <<>>
    /\ df_output = <<>>
    /\ st_error = <<>>

Init ==
    /\ data \in Inputs
    /\ pc = "ready"
    /\ outcome = NoCall
    /\ frame = [region |-> data.region]
    /\ history = NoHistory
    /\ CalcIdle
    /\ ApiIdle

\* one call of calculate_gross_to_net(data)
Calculate ==
    /\ pc = "ready"
    /\ \E r \in {calculate_gross_to_net(data)} :
           /\ outcome' = [x \in DOMAIN r \ {"frame"} |-> r[x]]
           /\ frame' = r.frame
           /\ pc' = IF r.kind = "return" THEN "returned" ELSE "raised"
    /\ UNCHANGED <<data, history>>
    /\ UNCHANGED batchVars
    /\ UNCHANGED apiVars

Remember == [called |-> TRUE, data |-> data, outcome |-> outcome]

\* the caller changes the gross income and calls again
SetGross ==
    /\ pc \in {"returned", "raised"}
    /\ \E g \in GrossValues : data' = [data EXCEPT !.gross_income = g]
    /\ history' = Remember
    /\ pc' = "ready"
    /\ UNCHANGED <<outcome, frame>>
    /\ UNCHANGED batchVars
    /\ UNCHANGED apiVars

\* the caller changes the number of dependents and calls again
SetDependents ==
    /\ pc \in {"returned", "raised"}
    /\ \E n \in DependentValues : data' = [data EXCEPT !.num_dependents = n]
    /\ history' = Remember
    /\ pc' = "ready"
    /\ UNCHANGED <<outcome, frame>>
    /\ UNCHANGED batchVars
    /\ UNCHANGED apiVars

\* the caller changes the region and calls again
SetRegion ==
    /\ pc \in {"returned", "raised"}
    /\ \E r \in RegionValues : data' = [data EXCEPT !.region = r]
    /\ history' = Remember
    /\ pc' = "ready"
    /\ UNCHANGED <<outcome, frame>>
    /\ UNCHANGED batchVars
    /\ UNCHANGED apiVars

Next == Calculate \/ SetGross \/ SetDependents \/ SetRegion

Spec == Init /\ [][Next]_vars

TypeOK ==
    /\ data \in Inputs
    /\ pc \in {"idle", "ready", "returned", "raised"}
    /\ outcome.kind \in {"none", "return", "raise"}

(***************************************************************************)
(* Shorthands for the claims about calculate_gross_to_net.                 *)
(***************************************************************************)
\* the call on data is over and returned a GrossNetResult
Returned == pc = "returned" /\ outcome.kind = "return"

\* the call before the last one returned as well: history and outcome are
\* two results that can be compared
TwoResults ==
    /\ Returned
    /\ history.called
    /\ history.outcome.kind = "return"

Abs(n) == IF n < 0 THEN -n ELSE n

\* the float a holds a whole number of VND
Whole(a) == FromInt(FRound(a)) = a

\* what the rounded output fields leave between net income and
\* gross - insurance - tax
Drift(v) ==
    v.net_income
        - (v.gross_income - v.total_insurance_contribution - v.personal_income_tax)

SumOfBreakdown(b) ==
    b.social_insurance + b.health_insurance + b.unemployment_insurance

\* C1: for every valid input, the rounded output fields satisfy
\* net_income = gross_income - total_insurance_contribution
\* - personal_income_tax up to 1 VND.
C1_NetIdentity ==
    Returned => Abs(Drift(outcome.value)) <= 1

\* a result with tax and a fractional insurance total, whose rounded fields
\* are off by exactly 1 VND
C1_Witness ==
    /\ Returned
    /\ outcome.value.personal_income_tax > 0
    /\ ~Whole(frame.total_insurance)
    /\ Abs(Drift(outcome.value)) = 1

\* C2: for every valid input, the total of the insurance breakdown equals
\* the sum of its three rounded components exactly.
C2_TotalIsSumOfRounded ==
    Returned =>
        outcome.value.insurance_breakdown.total
            = SumOfBreakdown(outcome.value.insurance_breakdown)

\* the first example input of GrossNetInput: 30,000,000 / 1 dependent / region 1
Scenario1 == [gross_income |-> 30000000, num_dependents |-> 1, region |-> 1]

Scenario1Common(v) ==
    /\ v.insurance_breakdown.social_insurance = 2400000
    /\ v.insurance_breakdown.health_insurance = 450000
    /\ v.insurance_breakdown.unemployment_insurance = 300000
    /\ v.insurance_breakdown.total = 3150000
    /\ v.total_insurance_contribution = 3150000
    /\ v.pre_tax_income = 26850000
    /\ v.taxable_income = 11450000

\* C3 (as amended): for 30,000,000 / 1 dependent / region 1 the result is
\* social 2,400,000, health 450,000, unemployment 300,000, total insurance
\* 3,150,000, pre-tax 26,850,000, taxable 11,450,000, and the bracket walk
\* gives personal_income_tax 967,500 and net_income 25,882,500.
C3_Scenario1 ==
    (Returned /\ data = Scenario1) =>
        /\ Scenario1Common(outcome.value)
        /\ outcome.value.personal_income_tax = 967500
        /\ outcome.value.net_income = 25882500

C3_Witness == Returned /\ data = Scenario1 /\ outcome.value.gross_income = 30000000

\* C3 as stated: the same scenario with personal_income_tax 790,000 and
\* net_income 26,060,000.
C3_Original ==
    (Returned /\ data = Scenario1) =>
        /\ Scenario1Common(outcome.value)
        /\ outcome.value.personal_income_tax = 790000
        /\ outcome.value.net_income = 26060000

\* C4: for every region outside {1,2,3,4}, whatever the gross income and the
\* dependents, the call raises a ValueError carrying the region, before any
\* contribution or tax is computed, and returns no result.
C4_InvalidRegionRaises ==
    (pc # "ready" /\ data.region \notin {1, 2, 3, 4}) =>
        /\ pc = "raised"
        /\ outcome.kind = "raise"
        /\ outcome.exc.type = "ValueError"
        /\ outcome.exc.region = data.region
        /\ ToString(data.region) \in { outcome.exc.msg[i] : i \in DOMAIN outcome.exc.msg }
        /\ "value" \notin DOMAIN outcome
        /\ DOMAIN frame = {"region"}

C4_Witness ==
    /\ pc = "raised"
    /\ data.region = 5
    /\ data.gross_income = 30000000
    /\ outcome.exc.type = "ValueError"

\* C5: for every valid input every monetary field of the result is
\* non-negative, also when the gross income is below the regional minimum
\* wage.
C5_NonNegativeFields ==
    Returned =>
        /\ outcome.value.gross_income >= 0
        /\ outcome.value.net_income >= 0
        /\ outcome.value.personal_income_tax >= 0
        /\ outcome.value.total_insurance_contribution >= 0
        /\ outcome.value.taxable_income >= 0
        /\ outcome.value.pre_tax_income >= 0

\* C6: with dependents and region fixed, personal_income_tax is non-negative
\* and weakly increasing in gross_income.
C6_PitMonotoneInGross ==
    /\ Returned => outcome.value.personal_income_tax >= 0
    /\ (/\ TwoResults
        /\ history.data.num_dependents = data.num_dependents
        /\ history.data.region = data.region
        /\ history.data.gross_income <= data.gross_income)
       => history.outcome.value.personal_income_tax
              <= outcome.value.personal_income_tax

\* two results, one below the regional minimum wage and one above both
\* insurance caps, the second with more tax
C6_Witness ==
    /\ TwoResults
    /\ history.data.num_dependents = data.num_dependents
    /\ history.data.region = data.region
    /\ history.data.gross_income < REGIONAL_MINIMUM_WAGES[data.region]
    /\ data.gross_income > REGIONAL_MINIMUM_WAGES[data.region] * BHTN_CAP_MULTIPLIER
    /\ data.gross_income > BHXH_BHYT_MAX_BASE
    /\ history.outcome.value.personal_income_tax
           < outcome.value.personal_income_tax

\* the last call had one dependent more than the call before it, and the
\* same gross income and region
OneMoreDependent ==
    /\ TwoResults
    /\ history.data.gross_income = data.gross_income
    /\ history.data.region = data.region
    /\ data.num_dependents = history.data.num_dependents + 1

\* C7 (as amended): one more dependent never increases personal_income_tax,
\* and lowers the returned taxable_income by exactly 4,400,000, except that
\* it stops at 0: taxable' = max(0, taxable - 4,400,000).
C7_OneMoreDependent ==
    OneMoreDependent =>
        /\ outcome.value.personal_income_tax
               <= history.outcome.value.personal_income_tax
        /\ outcome.value.taxable_income
               = IF history.outcome.value.taxable_income >= 4400000
                 THEN history.outcome.value.taxable_income - 4400000
                 ELSE 0

\* one more dependent, with the taxable income going from above the
\* allowance to a lower positive value and the tax going down
C7_Witness ==
    /\ OneMoreDependent
    /\ history.outcome.value.taxable_income > 4400000
    /\ outcome.value.taxable_income > 0
    /\ outcome.value.personal_income_tax
           < history.outcome.value.personal_income_tax

\* C7 as stated: the taxable income goes down by exactly 4,400,000 unless it
\* was already clamped at 0.
C7_Original ==
    OneMoreDependent =>
        /\ outcome.value.personal_income_tax
               <= history.outcome.value.personal_income_tax
        /\ (history.outcome.value.taxable_income > 0
               => outcome.value.taxable_income
                      = history.outcome.value.taxable_income - 4400000)

\* C8: in every region, from gross_income 46,800,000 on the social/health
\* base is 46,800,000 and social_insurance and health_insurance stay at
\* 3,744,000 and 702,000; unemployment_insurance is constant from
\* regional_min_wage x 20 on.
C8_CapsSaturate ==
    /\ (Returned /\ data.gross_income >= 46800000) =>
           /\ frame.salary_base_bhxh_bhyt = FromInt(46800000)
           /\ outcome.value.insurance_breakdown.social_insurance = 3744000
           /\ outcome.value.insurance_breakdown.health_insurance = 702000
    /\ (Returned /\ data.gross_income >= REGIONAL_MINIMUM_WAGES[data.region] * 20) =>
           /\ frame.salary_base_bhtn = FromInt(REGIONAL_MINIMUM_WAGES[data.region] * 20)
           /\ outcome.value.insurance_breakdown.unemployment_insurance
                  = REGIONAL_MINIMUM_WAGES[data.region] \div 5
    /\ (/\ TwoResults
        /\ history.data.region = data.region
        /\ history.data.gross_income >= REGIONAL_MINIMUM_WAGES[data.region] * 20
        /\ data.gross_income >= history.data.gross_income)
       => outcome.value.insurance_breakdown
              = history.outcome.value.insurance_breakdown

\* two results above both caps with different gross incomes
C8_Witness ==
    /\ TwoResults
    /\ history.data.region = data.region
    /\ history.data.gross_income >= REGIONAL_MINIMUM_WAGES[data.region] * 20
    /\ history.data.gross_income >= 46800000
    /\ data.gross_income > history.data.gross_income
    /\ outcome.value.insurance_breakdown.social_insurance = 3744000

\* the index of the first bracket whose limit is not below t
RECURSIVE FirstBracket(_, _)
FirstBracket(t, i) ==
    IF i >= Len(PIT_BRACKETS) \/ FLeq(t, FromInt(PIT_BRACKETS[i].limit))
    THEN i
    ELSE FirstBracket(t, i + 1)

\* t x rate - deduction, from that bracket
ClosedForm(t) ==
    LET bracket == PIT_BRACKETS[FirstBracket(t, 1)]
    IN  FSub(FMul(t, bracket.rate), FromInt(bracket.deduction))

\* C10 (as amended): for every taxable income t >= 0 the bracket walk over
\* PIT_BRACKETS gives the tax of t x rate - deduction, taken from the first
\* bracket whose limit is not below t, to within 1 VND: both are float
\* computations, and they can round to different sides of a half VND.
C10_WalkIsClosedForm ==
    Returned =>
        Abs(FRound(frame.pit_walk) - FRound(ClosedForm(frame.taxable_income))) <= 1

\* a taxable income in the top bracket, not on a limit, whose tax is on a
\* half VND by the walk and just below it by the closed form
C10_Witness ==
    /\ Returned
    /\ FLess(FromInt(80000000), frame.taxable_income)
    /\ outcome.value.personal_income_tax > 0
    /\ FRound(frame.pit_walk) = FRound(ClosedForm(frame.taxable_income)) + 1

\* C10 as stated: the bracket walk and the closed form give the same tax.
C10_Original ==
    Returned => FRound(frame.pit_walk) = FRound(ClosedForm(frame.taxable_income))

(***************************************************************************)
(* The batch tab: an uploaded table is checked for its columns and then    *)
(* processed row by row.  A cell is a whole number, a number with a        *)
(* fractional part (counted in halves), an empty cell (NaN) or a text; a   *)
(* string is a sequence of tokens in which every ":" and every blank at a  *)
(* place that matters is a token of its own.                               *)
(***************************************************************************)
EXPECTED_COLUMNS ==
    [gross |-> "GrossIncome", dependents |-> "Dependents", region |-> "Region"]

\* EXPECTED_COLUMNS.keys(): a dict keeps the order of its literal
EXPECTED_COLUMNS_keys == <<"gross", "dependents", "region">>

OUTPUT_COLUMNS ==
    <<"NetIncome", "PIT", "TotalInsurance", "TaxableIncome", "PreTaxIncome",
      "BHXH", "BHYT", "BHTN", "CalculationStatus", "ErrorMessage">>

\* the eight calculation columns of a result row
ValueColumns ==
    {"NetIncome", "PIT", "TotalInsurance", "TaxableIncome", "PreTaxIncome",
     "BHXH", "BHYT", "BHTN"}

Num(n) == [kind |-> "num", val |-> n]
\* the cell t/2 for an odd t: 2.5 is Halves(5), -0.5 is Halves(-1)
Halves(t) == [kind |-> "half", val |-> t]

NaN == [kind |-> "nan", val |-> 0]
Text == [kind |-> "str", val |-> 0]
\* variant: result_data starts with 0 in every column where the code has None
None_Zero == Num(0)

None == [kind |-> "none", val |-> 0]

\* float(cell); the gross cells of the model are whole numbers, empty or text
float(cell) ==
    IF cell.kind = "str"
    THEN [ok |-> FALSE,
          exc |-> [type |-> "ValueError",
                   msg |-> <<"could not convert string to float", ":", " ", "'abc'">>]]
    ELSE [ok |-> TRUE, value |-> cell]

\* int(cell): a text and an empty cell raise, a number loses its fractional
\* part (int(2.5) is 2, int(-0.5) is 0)
int(cell) ==
    IF cell.kind = "str"
    THEN [ok |-> FALSE,
          exc |-> [type |-> "ValueError",
                   msg |-> <<"invalid literal for int() with base 10", ":", " ", "'abc'">>]]
    ELSE IF cell.kind = "nan"
    THEN [ok |-> FALSE,
          exc |-> [type |-> "ValueError",
                   msg |-> <<"cannot convert float NaN to integer">>]]
    ELSE IF cell.kind = "half"
    THEN [ok |-> TRUE,
          value |-> IF cell.val >= 0 THEN cell.val \div 2 ELSE -((-cell.val) \div 2)]
    ELSE [ok |-> TRUE, value |-> cell.val]

\* the pydantic release the program runs with: the URL at the end of an
\* error of a ValidationError carries its major.minor
pydantic_version == "2.13"

\* repr of a float cell, as a ValidationError shows its input
repr_float(cell) ==
    IF cell.kind = "nan" THEN <<"nan">> ELSE <<ToString(cell.val), ".0">>

FieldError(loc, msg, type, input_value, input_type) ==
    [loc |-> loc, msg |-> msg, type |-> type, input_value |-> input_value,
     input_type |-> input_type]

\* the field constraints gt=0, ge=0, ge=1, le=4 that the arguments break, in
\* the order of the fields; NaN is not greater than 0
FieldErrors(gross, deps, reg) ==
    (IF gross.kind = "num" /\ gross.val > 0 THEN <<>>
     ELSE <<FieldError("gross_income", "Input should be greater than 0",
                       "greater_than", repr_float(gross), "float")>>)
    \o (IF deps >= 0 THEN <<>>
        ELSE <<FieldError("num_dependents",
                          "Input should be greater than or equal to 0",
                          "greater_than_equal", <<ToString(deps)>>, "int")>>)
    \o (IF reg < 1
        THEN <<FieldError("region", "Input should be greater than or equal to 1",
                          "greater_than_equal", <<ToString(reg)>>, "int")>>
        ELSE IF reg > 4
        THEN <<FieldError("region", "Input should be less than or equal to 4",
                          "less_than_equal", <<ToString(reg)>>, "int")>>
        ELSE <<>>)

\* str() of a ValidationError: the count, then field, message and URL of
\* each error
RECURSIVE ErrorLines(_)
ErrorLines(errors) ==
    IF errors = <<>> THEN <<>>
    ELSE <<"\n", Head(errors).loc, "\n  ", Head(errors).msg,
           " [type=", Head(errors).type, ", input_value=">>
             \o Head(errors).input_value
             \o <<", input_type=", Head(errors).input_type,
                  "]\n    For further information visit https", ":",
                  "//errors.pydantic.dev/", pydantic_version, "/v/",
                  Head(errors).type>>
             \o ErrorLines(Tail(errors))

ValidationErrorMessage(errors) ==
    <<ToString(Len(errors)),
      IF Len(errors) = 1 THEN " validation error" ELSE " validation errors",
      " for GrossNetInput">> \o ErrorLines(errors)

\* GrossNetInput(gross_income=..., num_dependents=..., region=...)
GrossNetInput(gross, deps, reg) ==
    IF FieldErrors(gross, deps, reg) = <<>>
    THEN [ok |-> TRUE,
          value |-> [gross_income |-> gross.val, num_dependents |-> deps,
                     region |-> reg]]
    ELSE [ok |-> FALSE,
          exc |-> [type |-> "ValidationError",
                   msg |-> ValidationErrorMessage(FieldErrors(gross, deps, reg))]]

\* the body of the try block of the row loop: the result of the row, or the
\* exception that left the block
row_try(row) ==
    LET gross == float(row[EXPECTED_COLUMNS.gross])
        deps == int(row[EXPECTED_COLUMNS.dependents])
        reg == int(row[EXPECTED_COLUMNS.region])
    IN
    IF ~gross.ok THEN gross
    ELSE IF ~deps.ok THEN deps
    ELSE IF ~reg.ok THEN reg
    ELSE IF \/ (gross.value.kind = "num" /\ gross.value.val <= 0)
            \/ deps.value < 0
            \/ reg.value \notin {1, 2, 3, 4}
    THEN [ok |-> FALSE,
          exc |-> [type |-> "ValueError",
                   msg |-> <<"Invalid input value(s) in row.">>]]
    ELSE
    LET input_data == GrossNetInput(gross.value, deps.value, reg.value)
    IN
    IF ~input_data.ok THEN input_data
    ELSE
    Let([call \in {calculate_gross_to_net(input_data.value)} |->
        IF call.kind = "raise"
        THEN [ok |-> FALSE, exc |-> [type |-> call.exc.type, msg |-> call.exc.msg]]
        ELSE [ok |-> TRUE, value |-> call.value]])

\* the two except clauses of the row loop; ValidationError is a ValueError
except_clause(idx, e) ==
    IF e.type \in {"ValueError", "ValidationError", "TypeError", "KeyError"}
    THEN [status |-> "Error",
          error_msg |-> <<"Row", " ", ToString(idx + 2), ":", " ", e.type, " ", "-", " ">>
                            \o e.msg]
    ELSE [status |-> "Error",
          error_msg |-> <<"Row", " ", ToString(idx + 2), ":", " ",
                          "Unexpected Error", " ", "-", " ">> \o e.msg]

\* s.split(':')[-1]
RECURSIVE split_last(_)
split_last(s) ==
    IF \A i \in DOMAIN s : s[i] # ":" THEN s
    ELSE split_last(Tail(s))

\* s.strip()
RECURSIVE strip(_)
strip(s) ==
    IF s = <<>> THEN s
    ELSE IF Head(s) = " " THEN strip(Tail(s))
    ELSE IF s[Len(s)] = " " THEN strip(SubSeq(s, 1, Len(s) - 1))
    ELSE s

\* one pass of the row loop: the result_data appended for the row
process_row(idx, row) ==
    Let([attempt \in {row_try(row)} |->
    Let([caught \in {IF attempt.ok
                     THEN [status |-> "Success", error_msg |-> <<>>]
                     ELSE except_clause(idx, attempt.exc)} |->
        [NetIncome |-> IF attempt.ok THEN Num(attempt.value.net_income) ELSE None,
         PIT |-> IF attempt.ok THEN Num(attempt.value.personal_income_tax) ELSE None,
         TotalInsurance |->
             IF attempt.ok THEN Num(attempt.value.total_insurance_contribution) ELSE None,
         TaxableIncome |-> IF attempt.ok THEN Num(attempt.value.taxable_income) ELSE None,
         PreTaxIncome |-> IF attempt.ok THEN Num(attempt.value.pre_tax_income) ELSE None,
         BHXH |-> IF attempt.ok
                  THEN Num(attempt.value.insurance_breakdown.social_insurance) ELSE None,
         BHYT |-> IF attempt.ok
                  THEN Num(attempt.value.insurance_breakdown.health_insurance) ELSE None,
         BHTN |-> IF attempt.ok
                  THEN Num(attempt.value.insurance_breakdown.unemployment_insurance)
                  ELSE None,
         CalculationStatus |-> caught.status,
         ErrorMessage |-> IF caught.error_msg # <<>>
                          THEN strip(split_last(caught.error_msg))
                          ELSE <<>>]])])

\* the cells of the uploaded tables of the model
GrossCells == {Num(0), Num(150030), Num(30000000), NaN, Text}

DependentsCells == {Num(-1), Num(1), Halves(3), Halves(-1), NaN}

RegionCells == {Num(1), Num(5), Halves(5), Text}

CellsOf ==
    [GrossIncome |-> GrossCells, Dependents |-> DependentsCells, Region |-> RegionCells]

ColumnNames == { EXPECTED_COLUMNS[k] : k \in DOMAIN EXPECTED_COLUMNS }

\* the rows of a table with the columns c: one cell per column
RowsOver(c) ==
    { r \in [c -> GrossCells \cup DependentsCells \cup RegionCells] :
          \A col \in c : r[col] \in CellsOf[col] }

BatchIdle ==
    /\ data = Scenario1
    /\ pc = "idle"
    /\ outcome = NoCall
    /\ frame = [region |-> data.region]
    /\ history = NoHistory

\* the content of an upload: an .xlsx workbook holding one sheet
Workbook(sheet) == [kind |-> "workbook", sheet |-> sheet]

\* the content of an upload that is no Excel workbook, whatever its name says
NotAWorkbook == [kind |-> "not a workbook"]

\* the names of the uploads of the model, a token for the extension; the
\* uploader accepts xlsx and xls in either case
FileNames ==
    { <<"payroll", ".", "xlsx">>, <<"payroll", ".", "xls">>,
      <<"PAYROLL", ".", "XLSX">> }

UploadedFile(name, content) == [name |-> name, content |-> content]

\* name.endswith(suffix)
endswith(name, suffix) == name # <<>> /\ name[Len(name)] = suffix

\* 'openpyxl' if uploaded_file.name.endswith('xlsx') else None
engine_for(file) == IF endswith(file.name, "xlsx") THEN "openpyxl" ELSE "None"

\* pd.read_excel(uploaded_file, engine=...): the table, or the exception
\* the read leaves with.  openpyxl opens the file as a zip archive; without
\* an engine pandas looks at the content, reads a workbook with openpyxl
\* and gives up on anything else
read_excel(file, engine) ==
    IF file.content.kind = "workbook"
    THEN [ok |-> TRUE, value |-> file.content.sheet]
    ELSE IF engine = "openpyxl"
    THEN [ok |-> FALSE,
          exc |-> [type |-> "BadZipFile", msg |-> <<"File is not a zip file">>]]
    ELSE [ok |-> FALSE,
          exc |-> [type |-> "ValueError",
                   msg |-> <<"Excel file format cannot be determined, you must specify an engine manually.">>]]

\* a file has been uploaded
BatchInit ==
    /\ \E name \in FileNames :
           \/ uploaded_file = UploadedFile(name, NotAWorkbook)
           \/ \E c \in SUBSET ColumnNames :
                  \E n \in 0..MaxRows :
                      \E r \in [1..n -> RowsOver(c)] :
                          uploaded_file
                              = UploadedFile(name, Workbook([columns |-> c, rows |-> r]))
    /\ df_input = NoTable
    /\ batch_pc = "uploaded"
    /\ index = 0
    /\ results_list = <<>>
    /\ df_output = <<>>
    /\ st_error = <<>>
    /\ BatchIdle
    /\ ApiIdle

\* the first statement of the outer try block: the file is read into
\* df_input, or the outer except clause reports the exception and the
\* handler is over.  The clause also stands behind the statements after the
\* read; on the tables of the model none of them raises
ReadExcel ==
    /\ batch_pc = "uploaded"
    /\ \E read \in {read_excel(uploaded_file, engine_for(uploaded_file))} :
           IF read.ok
           THEN /\ df_input' = read.value
                /\ batch_pc' = "read"
                /\ st_error' = st_error
           ELSE /\ df_input' = df_input
                /\ batch_pc' = "failed"
                /\ st_error' = <<"Error reading or processing Excel file", ":", " ">>
                                    \o read.exc.msg
    /\ UNCHANGED <<uploaded_file, index, results_list, df_output>>
    /\ UNCHANGED calcVars
    /\ UNCHANGED apiVars

\* the expected names, in the order of EXPECTED_COLUMNS, that df_input lacks
missing_cols ==
    SelectSeq([i \in DOMAIN EXPECTED_COLUMNS_keys |->
                   EXPECTED_COLUMNS[EXPECTED_COLUMNS_keys[i]]],
              LAMBDA expected_name : expected_name \notin df_input.columns)

\* sep.join(names)
RECURSIVE join(_, _)
join(sep, names) ==
    IF Len(names) <= 1 THEN names
    ELSE <<Head(names), sep>> \o join(sep, Tail(names))

\* the column check: a missing column stops the batch with an error that
\* lists the missing names
CheckColumns ==
    /\ batch_pc = "read"
    /\ IF missing_cols # <<>>
       THEN /\ st_error' = <<"Error", ":", " ",
                              "Missing required columns in Excel file", ":", " ">>
                                \o join(", ", missing_cols)
            /\ batch_pc' = "rejected"
       ELSE /\ st_error' = st_error
            /\ batch_pc' = "loop"
    /\ results_list' = <<>>
    /\ UNCHANGED <<uploaded_file, df_input, index, df_output>>
    /\ UNCHANGED calcVars
    /\ UNCHANGED apiVars

\* one iteration of "for index, row in df_input.iterrows()"
ProcessRow ==
    /\ batch_pc = "loop"
    /\ index < Len(df_input.rows)
    /\ results_list' = Append(results_list, process_row(index, df_input.rows[index + 1]))
    /\ index' = index + 1
    /\ UNCHANGED <<uploaded_file, df_input, batch_pc, df_output, st_error>>
    /\ UNCHANGED calcVars
    /\ UNCHANGED apiVars

\* pd.DataFrame(results_list): a calculation column that holds a number in
\* some row is a column of floats, in which the None of a failed row is
\* NaN; a column that holds None in every row stays as it is, and so do the
\* columns of the status and of the message
DataFrame(list) ==
    [i \in 1..Len(list) |->
        [col \in DOMAIN list[i] |->
            IF /\ col \in ValueColumns
               /\ list[i][col].kind = "none"
               /\ \E j \in 1..Len(list) : list[j][col].kind = "num"
            THEN NaN
            ELSE list[i][col]]]

\* [actual_cols_map[k] for k in EXPECTED_COLUMNS.keys()]
original_input_cols ==
    { EXPECTED_COLUMNS[EXPECTED_COLUMNS_keys[k]] : k \in DOMAIN EXPECTED_COLUMNS_keys }

\* after the loop: the expected input columns and the table of the results
\* side by side, row by row
AssembleOutput ==
    /\ batch_pc = "loop"
    /\ index = Len(df_input.rows)
    /\ df_output' = [i \in 1..Len(results_list) |->
                         [input |-> [col \in original_input_cols |->
                                        df_input.rows[i][col]],
                          result |-> DataFrame(results_list)[i]]]
    /\ batch_pc' = "done"
    /\ UNCHANGED <<uploaded_file, df_input, index, results_list, st_error>>
    /\ UNCHANGED calcVars
    /\ UNCHANGED apiVars

BatchNext == ReadExcel \/ CheckColumns \/ ProcessRow \/ AssembleOutput

SpecBatch == BatchInit /\ [][BatchNext]_vars

\* a row that satisfies the input constraints: gross > 0, dependents a
\* whole number >= 0, region one of 1, 2, 3, 4
RowValid(row) ==
    /\ row.GrossIncome.kind = "num" /\ row.GrossIncome.val > 0
    /\ row.Dependents.kind = "num" /\ row.Dependents.val >= 0
    /\ row.Region.kind = "num" /\ row.Region.val \in {1, 2, 3, 4}

\* C9: in a table with all required columns, exactly the invalid rows get
\* status "Error" with a non-empty message, every valid row gets "Success"
\* with an empty message, and the loop goes through all rows without the
\* batch failing.
C9_BatchIsolation ==
    /\ batch_pc \in {"loop", "done"} =>
           /\ st_error = <<>>
           /\ Len(results_list) = index
           /\ \A i \in 1..Len(results_list) :
                  IF RowValid(df_input.rows[i])
                  THEN /\ results_list[i].CalculationStatus = "Success"
                       /\ results_list[i].ErrorMessage = <<>>
                  ELSE /\ results_list[i].CalculationStatus = "Error"
                       /\ results_list[i].ErrorMessage # <<>>
    /\ batch_pc = "done" => Len(results_list) = Len(df_input.rows)
    /\ batch_pc = "loop" => index <= Len(df_input.rows)

\* a row whose cells the loop converts and lets through its guard
RowAccepted(row) ==
    /\ float(row.GrossIncome).ok /\ row.GrossIncome.kind = "num"
    /\ row.GrossIncome.val > 0
    /\ int(row.Dependents).ok /\ int(row.Dependents).value >= 0
    /\ int(row.Region).ok /\ int(row.Region).value \in {1, 2, 3, 4}

\* what the calculator returns for the converted cells of a row, column by
\* column
ExpectedValues(row) ==
    Let([v \in {calculate_gross_to_net(
                    [gross_income |-> float(row.GrossIncome).value.val,
                     num_dependents |-> int(row.Dependents).value,
                     region |-> int(row.Region).value]).value} |->
        [NetIncome |-> v.net_income,
         PIT |-> v.personal_income_tax,
         TotalInsurance |-> v.total_insurance_contribution,
         TaxableIncome |-> v.taxable_income,
         PreTaxIncome |-> v.pre_tax_income,
         BHXH |-> v.insurance_breakdown.social_insurance,
         BHYT |-> v.insurance_breakdown.health_insurance,
         BHTN |-> v.insurance_breakdown.unemployment_insurance]])

\* an empty cell of a table: None, or NaN in a column of floats
Empty(cell) == cell.kind \in {"none", "nan"}

\* C11: the batch output has exactly one result row per input row, in the
\* order of the input rows, whether the row succeeded or failed (row i
\* echoes input row i and carries the calculation of input row i); a row
\* with status "Error" has all eight calculation columns empty.
C11_OneRowPerInputInOrder ==
    /\ batch_pc \in {"loop", "done"} =>
           /\ Len(results_list) = index
           /\ \A i \in 1..Len(results_list) :
                  /\ DOMAIN results_list[i] = { OUTPUT_COLUMNS[k] : k \in DOMAIN OUTPUT_COLUMNS }
                  /\ results_list[i].CalculationStatus \in {"Success", "Error"}
                  /\ results_list[i].CalculationStatus = "Error" =>
                         \A col \in ValueColumns : results_list[i][col].kind = "none"
                  /\ results_list[i].CalculationStatus = "Success" =>
                         /\ RowAccepted(df_input.rows[i])
                         /\ \A col \in ValueColumns :
                                /\ results_list[i][col].kind = "num"
                                /\ results_list[i][col].val
                                       = ExpectedValues(df_input.rows[i])[col]
    /\ batch_pc = "done" =>
           /\ Len(df_output) = Len(df_input.rows)
           /\ \A i \in 1..Len(df_output) :
                  /\ df_output[i].input = df_input.rows[i]
                  /\ df_output[i].result.CalculationStatus
                         = results_list[i].CalculationStatus
                  /\ df_output[i].result.ErrorMessage = results_list[i].ErrorMessage
                  /\ \A col \in ValueColumns :
                         IF results_list[i].CalculationStatus = "Error"
                         THEN Empty(df_output[i].result[col])
                         ELSE df_output[i].result[col] = results_list[i][col]
    /\ batch_pc # "done" => df_output = <<>>

\* a finished batch of two different rows, the first failed with every
\* calculation column empty (NaN next to the floats of the second row), the
\* second the 30,000,000 scenario
C11_Witness ==
    /\ batch_pc = "done"
    /\ Len(df_output) = 2
    /\ ~RowValid(df_input.rows[1])
    /\ df_input.rows[1].GrossIncome = Num(150030)
    /\ df_output[1].result.CalculationStatus = "Error"
    /\ \A col \in ValueColumns : results_list[1][col] = None
    /\ \A col \in ValueColumns : df_output[1].result[col] = NaN
    /\ df_output[2].result.CalculationStatus = "Success"
    /\ df_output[2].input.GrossIncome = Num(30000000)
    /\ df_output[2].result.NetIncome = Num(25882500)

(***************************************************************************)
(* The API router (src/api/routers/gross_net.py): POST, HEAD and GET on    *)
(* /gross-to-net.  The calculate_gross_to_net it imports is taken to be    *)
(* the function above: the POST handler hands it a GrossNetInput, which    *)
(* only attribute reads can take apart.  The repository names no release   *)
(* of fastapi and pydantic; whether the module can be executed depends on  *)
(* what the release does with the examples of line 17.                     *)
(***************************************************************************)
\* a dict literal {"gross_income": ..., "num_dependents": ..., "region": ...}
Dict(items) == [py_type |-> "dict", items |-> items]

\* example_data of get_gross_to_net_example
example_data ==
    Dict([gross_income |-> 30000000, num_dependents |-> 1, region |-> 1])

Requests ==
    { [method |-> "POST", body |-> b] : b \in Inputs }
        \cup { [method |-> "HEAD", body |-> <<>>], [method |-> "GET", body |-> <<>>] }

\* the three routes of the module are registered
Registered == [kind |-> "registered"]

\* the decorator of api_calculate_gross_to_net raised
NotRegistered(exc) == [kind |-> "failed", exc |-> exc]

ApiInit ==
    /\ router = NoRouter
    /\ request \in Requests
    /\ response = NoResponse
    /\ BatchIdle
    /\ uploaded_file = NoFile
    /\ df_input = NoTable
    /\ batch_pc = "idle"
    /\ index = 0
    /\ results_list = <<>>
    /\ df_output = <<>>
    /\ st_error = <<>>

\* the module is executed: router.post builds the body parameter with
\* examples={...}, a set that holds Ellipsis.  A release that turns the
\* examples into JSON at this point (pydantic 2.13 under fastapi 0.115)
\* raises, and no route exists; a release that keeps them as they are
\* registers the three routes
LoadRouter ==
    /\ router = NoRouter
    /\ \/ router' = NotRegistered(
                        [type |-> "PydanticSerializationError",
                         msg |-> <<"Unable to serialize unknown type", ":", " ",
                                   "<class 'ellipsis'>">>])
       \/ router' = Registered
    /\ UNCHANGED <<request, response>>
    /\ UNCHANGED calcVars
    /\ UNCHANGED batchVars

\* the bound of a field constraint, as the detail of a refused body names it
ctx(error) ==
    IF error.type = "greater_than" THEN [gt |-> 0]
    ELSE IF error.type = "less_than_equal" THEN [le |-> 4]
    ELSE IF error.loc = "region" THEN [ge |-> 1]
    ELSE [ge |-> 0]

\* the detail of the RequestValidationError of a body: one entry per
\* broken field constraint
RECURSIVE detail(_, _)
detail(errors, body) ==
    IF errors = <<>> THEN <<>>
    ELSE <<[type |-> Head(errors).type,
            loc |-> <<"body", Head(errors).loc>>,
            msg |-> Head(errors).msg,
            input |-> body[Head(errors).loc],
            ctx |-> ctx(Head(errors))]>>
             \o detail(Tail(errors), body)

\* api_calculate_gross_to_net: the body is validated into a GrossNetInput
\* before the handler runs, and a body that breaks a field constraint is
\* answered with 422; the handler maps ValueError to 400 and every other
\* exception to 500
ApiPost ==
    /\ router.kind = "registered"
    /\ request.method = "POST"
    /\ response = NoResponse
    /\ LET input_data == GrossNetInput(Num(request.body.gross_income),
                                       request.body.num_dependents,
                                       request.body.region)
       IN  IF ~input_data.ok
           THEN response' = [kind |-> "request_validation_error",
                             status_code |-> 422,
                             exc |-> [type |-> "RequestValidationError"],
                             detail |-> detail(FieldErrors(
                                                   Num(request.body.gross_income),
                                                   request.body.num_dependents,
                                                   request.body.region),
                                               request.body)]
           ELSE \E call \in {calculate_gross_to_net(input_data.value)} :
                    response' =
                        IF call.kind = "return"
                        THEN [kind |-> "return", body |-> call.value]
                        ELSE IF call.exc.type \in {"ValueError", "ValidationError"}
                        THEN [kind |-> "http_exception", status_code |-> 400,
                              detail |-> <<"Input validation error", ":", " ">>
                                             \o call.exc.msg]
                        ELSE [kind |-> "http_exception", status_code |-> 500,
                              detail |-> <<"An unexpected error occurred while processing the calculation.">>]
    /\ UNCHANGED <<router, request>>
    /\ UNCHANGED calcVars
    /\ UNCHANGED batchVars

\* head_gross_to_net
ApiHead ==
    /\ router.kind = "registered"
    /\ request.method = "HEAD"
    /\ response = NoResponse
    /\ response' = [kind |-> "return", body |-> [message |-> "API is available"]]
    /\ UNCHANGED <<router, request>>
    /\ UNCHANGED calcVars
    /\ UNCHANGED batchVars

\* get_gross_to_net_example: no try block, an exception of the call leaves
\* the handler
ApiGet ==
    /\ router.kind = "registered"
    /\ request.method = "GET"
    /\ response = NoResponse
    /\ \E result \in {calculate_gross_to_net(example_data)} :
           response' =
               IF result.kind = "return"
               THEN [kind |-> "return", body |-> result.value]
               ELSE [kind |-> "raise", exc |-> result.exc]
    /\ UNCHANGED <<router, request>>
    /\ UNCHANGED calcVars
    /\ UNCHANGED batchVars

ApiNext == LoadRouter \/ ApiPost \/ ApiHead \/ ApiGet

SpecApi == ApiInit /\ [][ApiNext]_vars

\* C12: the GET /gross-to-net handler returns a successful calculation
\* result for the example input 30,000,000 / 1 dependent / region 1, by
\* passing the example to calculate_gross_to_net.
C12_GetReturnsExample ==
    (request.method = "GET" /\ response # NoResponse) =>
        /\ response.kind = "return"
        /\ response.body.gross_income = 30000000
        /\ response.body.net_income = 25882500
====
